---------------------------- MODULE Spec2Model ----------------------------
(***************************************************************************)
(* Register map of the PCH PMC device (TigerlakePchPkg, PmcRegs.h).        *)
(*                                                                         *)
(* The header is a list of object-like macro definitions.  The model runs  *)
(* the preprocessor over that list, one #define at a time, building the    *)
(* macro table a translation unit sees, and then lets a consumer use the   *)
(* resolved names on 32-bit register contents: field write and read-back,  *)
(* timer masking, IPC command word packing, SMI status/enable matching.    *)
(*                                                                         *)
(* A UINT32 is modelled as the set of positions of its 1 bits, because the *)
(* map uses BIT31 and 32-bit complements, which exceed the integers the    *)
(* model checker computes with.  Integer literals are converted to that    *)
(* form by Bits and back by Val.                                           *)
(***************************************************************************)
EXTENDS Integers, Sequences, FiniteSets, TLC

\* How many bit positions on either side of a field boundary the consumer's
\* register contents vary over.
Margin == 1

(***************************************************************************)
(* UINT32 values and the C operators on them                               *)
(***************************************************************************)
AllBits == 0..31

\* BITn of Base.h: the value with only bit n set.
BIT(n) == {n}

\* The bit pattern of a non-negative integer literal below 2^31.
Bits(n) == {i \in 0..30 : (n \div (2^i)) % 2 = 1}

\* The integer a bit pattern denotes (bit 31 clear).
RECURSIVE Val(_)
Val(s) ==
  IF s = {} THEN 0
  ELSE LET i == CHOOSE j \in s : \A k \in s : k <= j
       IN 2^i + Val(s \ {i})

BitOr(a, b) == a \cup b
BitAnd(a, b) == a \cap b
\* ~a on a UINT32
BitNot(a) == AllBits \ a
\* a << n without truncation, and truncated to a UINT32
ShlWide(a, n) == {i + n : i \in a}
Shl(a, n) == ShlWide(a, n) \cap AllBits
\* a >> n
Shr(a, n) == {i - n : i \in {j \in a : j >= n}}
\* the mask (1 << n) - 1
LowMask(n) == 0..(n - 1)

(***************************************************************************)
(* The constants of PmcRegs.h, under their own names                       *)
(***************************************************************************)
PCI_DEVICE_NUMBER_PCH_PMC_SSRAM == 20
PCI_FUNCTION_NUMBER_PCH_PMC_SSRAM == 2
PCI_DEVICE_NUMBER_PCH_PMC == 31
PCI_FUNCTION_NUMBER_PCH_PMC == 2
\* 0x1210
R_PMC_PWRM_TIMED_GPIO_CONTROL_0 == 4624
\* 0x1310
R_PMC_PWRM_TIMED_GPIO_CONTROL_1 == 4880
\* 0x00
R_ACPI_IO_PM1_STS == 0
B_ACPI_IO_PM1_STS_RTC_EN == BIT(26)
B_ACPI_IO_PM1_STS_WAK == BIT(15)
B_ACPI_IO_PM1_STS_PRBTNOR == BIT(11)
B_ACPI_IO_PM1_STS_RTC == BIT(10)
B_ACPI_IO_PM1_STS_PWRBTN == BIT(8)
B_ACPI_IO_PM1_STS_GBL == BIT(5)
B_ACPI_IO_PM1_STS_TMROF == BIT(0)
B_ACPI_IO_PM1_EN_PWRBTN == BIT(8)
\* 0x04
R_ACPI_IO_PM1_CNT == 4
\* Variant: SCI_EN placed on the lowest SLP_TYP bit.
B_ACPI_IO_PM1_CNT_SCI_EN_InSlpTyp == BIT(10)
B_ACPI_IO_PM1_CNT_SCI_EN == BIT(0)
\* Variant: the SLP_TYP mask with BIT10 left out.
B_ACPI_IO_PM1_CNT_SLP_TYP_TwoBits == BitOr(BIT(12), BIT(11))
B_ACPI_IO_PM1_CNT_SLP_TYP == BitOr(BitOr(BIT(12), BIT(11)), BIT(10))
V_ACPI_IO_PM1_CNT_S0 == 0
V_ACPI_IO_PM1_CNT_S3 == BitOr(BIT(12), BIT(10))
V_ACPI_IO_PM1_CNT_S4 == BitOr(BIT(12), BIT(11))
V_ACPI_IO_PM1_CNT_S5 == BitOr(BitOr(BIT(12), BIT(11)), BIT(10))
\* 0x08
R_ACPI_IO_PM1_TMR == 8
V_ACPI_IO_PM1_TMR_FREQUENCY == 3579545
\* 0xFFFFFF
B_ACPI_IO_PM1_TMR_VAL == 16777215
\* Variant: the timer modulus set to the largest count (0xFFFFFF).
V_ACPI_IO_PM1_TMR_MAX_VAL_OffByOne == 16777216 - 1
\* 0x1000000
V_ACPI_IO_PM1_TMR_MAX_VAL == 16777216
\* 0x30
R_ACPI_IO_SMI_EN == 48
\* Variant: SMI_EN declared two bytes wide.
S_ACPI_IO_SMI_EN_Word == 4 - 2
S_ACPI_IO_SMI_EN == 4
B_ACPI_IO_SMI_EN_LEGACY_USB3 == BIT(31)
B_ACPI_IO_SMI_EN_GPIO_UNLOCK_SMI == BIT(27)
B_ACPI_IO_SMI_EN_LEGACY_USB2 == BIT(17)
B_ACPI_IO_SMI_EN_PERIODIC == BIT(14)
B_ACPI_IO_SMI_EN_TCO == BIT(13)
B_ACPI_IO_SMI_EN_MCSMI == BIT(11)
B_ACPI_IO_SMI_EN_BIOS_RLS == BIT(7)
B_ACPI_IO_SMI_EN_SWSMI_TMR == BIT(6)
B_ACPI_IO_SMI_EN_APMC == BIT(5)
B_ACPI_IO_SMI_EN_ON_SLP_EN == BIT(4)
B_ACPI_IO_SMI_EN_LEGACY_USB == BIT(3)
B_ACPI_IO_SMI_EN_BIOS == BIT(2)
B_ACPI_IO_SMI_EN_EOS == BIT(1)
B_ACPI_IO_SMI_EN_GBL_SMI == BIT(0)
N_ACPI_IO_SMI_EN_LEGACY_USB3 == 31
N_ACPI_IO_SMI_EN_ESPI == 28
\* Variant: GPIO_UNLOCK given the position of the neighbouring ESPI bit.
N_ACPI_IO_SMI_EN_GPIO_UNLOCK_AsEspi == 27 + 1
N_ACPI_IO_SMI_EN_GPIO_UNLOCK == 27
N_ACPI_IO_SMI_EN_INTEL_USB2 == 18
N_ACPI_IO_SMI_EN_LEGACY_USB2 == 17
N_ACPI_IO_SMI_EN_PERIODIC == 14
N_ACPI_IO_SMI_EN_TCO == 13
N_ACPI_IO_SMI_EN_MCSMI == 11
N_ACPI_IO_SMI_EN_BIOS_RLS == 7
N_ACPI_IO_SMI_EN_SWSMI_TMR == 6
N_ACPI_IO_SMI_EN_APMC == 5
N_ACPI_IO_SMI_EN_ON_SLP_EN == 4
N_ACPI_IO_SMI_EN_LEGACY_USB == 3
N_ACPI_IO_SMI_EN_BIOS == 2
N_ACPI_IO_SMI_EN_EOS == 1
N_ACPI_IO_SMI_EN_GBL_SMI == 0
\* 0x34
R_ACPI_IO_SMI_STS == 52
B_ACPI_IO_SMI_STS_SMBUS == BIT(16)
B_ACPI_IO_SMI_STS_PERIODIC == BIT(14)
B_ACPI_IO_SMI_STS_TCO == BIT(13)
B_ACPI_IO_SMI_STS_MCSMI == BIT(11)
B_ACPI_IO_SMI_STS_SWSMI_TMR == BIT(6)
\* Variant: the APM status bit placed on the SWSMI_TMR bit.
B_ACPI_IO_SMI_STS_APM_AsSwsmiTmr == BIT(6)
B_ACPI_IO_SMI_STS_APM == BIT(5)
B_ACPI_IO_SMI_STS_ON_SLP_EN == BIT(4)
B_ACPI_IO_SMI_STS_BIOS == BIT(2)
\* 0x40
R_ACPI_IO_GPE_CNTL == 64
\* 0x54
R_ACPI_IO_OC_WDT_CTL == 84
\* 0x6C
R_ACPI_IO_GPE0_STS_127_96 == 108
\* 0x7C
R_ACPI_IO_GPE0_EN_127_96 == 124
B_ACPI_IO_GPE0_EN_127_96_PME_B0 == BIT(13)
B_ACPI_IO_GPE0_EN_127_96_PME == BIT(11)
\* 0x04
R_TCO_IO_TCO1_STS == 4
\* 0x00
R_PMC_PWRM_IPC_CMD == 0
N_PMC_PWRM_IPC_CMD_CMD_ID == 12
\* Variant: the size field starting on the last bit of the command ID.
N_PMC_PWRM_IPC_CMD_SIZE_Overlap == 16 - 1
N_PMC_PWRM_IPC_CMD_SIZE == 16
N_PMC_PWRM_IPC_CMD_COMMAND == 0
\* 0xAC
V_PMC_PWRM_IPC_SRC_CLK_PORT_MAPPING_CMD == 172
\* 0x04
R_PMC_PWRM_IPC_STS == 4
\* 0x80
R_PMC_PWRM_IPC_WBUF0 == 128
\* 0x84
R_PMC_PWRM_IPC_WBUF1 == 132
\* 0x88
R_PMC_PWRM_IPC_WBUF2 == 136
\* 0x8C
R_PMC_PWRM_IPC_WBUF3 == 140
\* 0x90
R_PMC_PWRM_IPC_RBUF0 == 144
\* 0x94
R_PMC_PWRM_IPC_RBUF1 == 148
\* 0x98
R_PMC_PWRM_IPC_RBUF2 == 152
\* 0x9C
R_PMC_PWRM_IPC_RBUF3 == 156
\* 0x1020
R_PMC_PWRM_GEN_PMCON_A == 4128
B_PMC_PWRM_GEN_PMCON_A_GBL_RST_STS == BIT(24)
B_PMC_PWRM_GEN_PMCON_A_PWR_FLR == BIT(14)
B_PMC_PWRM_GEN_PMCON_A_HOST_RST_STS == BIT(9)
\* 0x1024
R_PMC_PWRM_GEN_PMCON_B == 4132
B_PMC_PWRM_GEN_PMCON_B_SMI_LOCK == BIT(4)
B_PMC_PWRM_GEN_PMCON_B_RTC_PWR_STS == BIT(2)
B_PMC_PWRM_THROT_1_VR_ALERT == BIT(0)
\* 0x10D0
R_PMC_PWRM_MODPHY_PM_CFG5 == 4304
\* 0x10D4
R_PMC_PWRM_MODPHY_PM_CFG6 == 4308
\* 0x1560
R_PMC_PWRM_THERMAL_TSS0 == 5472
\* 0x1FF
B_PMC_PWRM_THERMAL_TSS0_TSR_MASK == 511
\* 0x1800
R_PMC_PWRM_WADT_AC == 6144
\* 0x1818
R_PMC_PWRM_CFG == 6168
\* 0x193C
R_PMC_PWRM_SLP_S0_RESIDENCY_COUNTER == 6460
\* Variant: CFG4 given the offset of CFG.
R_PMC_PWRM_CFG4_AsCfg == R_PMC_PWRM_CFG
\* 0x18E8
R_PMC_PWRM_CFG4 == 6376
\* 0x1B1C
R_PMC_PWRM_1B1C == 6940
\* 0x1BD0
R_PMC_PWRM_1BD0 == 7120
\* 0x1E20
R_PMC_PWRM_ST_PG_FDIS_PMC_1 == 7712
\* 0x1E28
R_PMC_PWRM_NST_PG_FDIS_1 == 7720
PMC_LPM_REQ_DATA_LEN == 192
\* Variant: the bit length given the byte length.
PMC_LPM_REQ_BITS_DATA_LEN_AsBytes == PMC_LPM_REQ_DATA_LEN
PMC_LPM_REQ_BITS_DATA_LEN == 1536

(***************************************************************************)
(* The header as the preprocessor reads it: one entry per #define, in      *)
(* source order.  kind, space and reg are the parts of the name the        *)
(* header's naming convention (lines 6-31) gives a meaning to.             *)
(***************************************************************************)
D(line, kind, space, reg, name, value) ==
  [line |-> line, kind |-> kind, space |-> space, reg |-> reg,
   name |-> name, value |-> value]

Header == <<
  D(40, "", "", "", "PCI_DEVICE_NUMBER_PCH_PMC_SSRAM", Bits(PCI_DEVICE_NUMBER_PCH_PMC_SSRAM)),
  D(41, "", "", "", "PCI_FUNCTION_NUMBER_PCH_PMC_SSRAM", Bits(PCI_FUNCTION_NUMBER_PCH_PMC_SSRAM)),
  D(46, "", "", "", "PCI_DEVICE_NUMBER_PCH_PMC", Bits(PCI_DEVICE_NUMBER_PCH_PMC)),
  D(47, "", "", "", "PCI_FUNCTION_NUMBER_PCH_PMC", Bits(PCI_FUNCTION_NUMBER_PCH_PMC)),
  D(49, "R", "PMC_PWRM", "TIMED_GPIO_CONTROL_0", "R_PMC_PWRM_TIMED_GPIO_CONTROL_0", Bits(R_PMC_PWRM_TIMED_GPIO_CONTROL_0)),
  D(50, "R", "PMC_PWRM", "TIMED_GPIO_CONTROL_1", "R_PMC_PWRM_TIMED_GPIO_CONTROL_1", Bits(R_PMC_PWRM_TIMED_GPIO_CONTROL_1)),
  D(56, "R", "ACPI_IO", "PM1_STS", "R_ACPI_IO_PM1_STS", Bits(R_ACPI_IO_PM1_STS)),
  D(57, "B", "ACPI_IO", "PM1_STS", "B_ACPI_IO_PM1_STS_RTC_EN", B_ACPI_IO_PM1_STS_RTC_EN),
  D(58, "B", "ACPI_IO", "PM1_STS", "B_ACPI_IO_PM1_STS_WAK", B_ACPI_IO_PM1_STS_WAK),
  D(59, "B", "ACPI_IO", "PM1_STS", "B_ACPI_IO_PM1_STS_PRBTNOR", B_ACPI_IO_PM1_STS_PRBTNOR),
  D(60, "B", "ACPI_IO", "PM1_STS", "B_ACPI_IO_PM1_STS_RTC", B_ACPI_IO_PM1_STS_RTC),
  D(61, "B", "ACPI_IO", "PM1_STS", "B_ACPI_IO_PM1_STS_PWRBTN", B_ACPI_IO_PM1_STS_PWRBTN),
  D(62, "B", "ACPI_IO", "PM1_STS", "B_ACPI_IO_PM1_STS_GBL", B_ACPI_IO_PM1_STS_GBL),
  D(63, "B", "ACPI_IO", "PM1_STS", "B_ACPI_IO_PM1_STS_TMROF", B_ACPI_IO_PM1_STS_TMROF),
  D(65, "B", "ACPI_IO", "PM1_EN", "B_ACPI_IO_PM1_EN_PWRBTN", B_ACPI_IO_PM1_EN_PWRBTN),
  D(67, "R", "ACPI_IO", "PM1_CNT", "R_ACPI_IO_PM1_CNT", Bits(R_ACPI_IO_PM1_CNT)),
  D(68, "B", "ACPI_IO", "PM1_CNT", "B_ACPI_IO_PM1_CNT_SCI_EN", B_ACPI_IO_PM1_CNT_SCI_EN),
  D(69, "B", "ACPI_IO", "PM1_CNT", "B_ACPI_IO_PM1_CNT_SLP_TYP", B_ACPI_IO_PM1_CNT_SLP_TYP),
  D(70, "V", "ACPI_IO", "PM1_CNT", "V_ACPI_IO_PM1_CNT_S0", Bits(V_ACPI_IO_PM1_CNT_S0)),
  D(71, "V", "ACPI_IO", "PM1_CNT", "V_ACPI_IO_PM1_CNT_S3", V_ACPI_IO_PM1_CNT_S3),
  D(72, "V", "ACPI_IO", "PM1_CNT", "V_ACPI_IO_PM1_CNT_S4", V_ACPI_IO_PM1_CNT_S4),
  D(73, "V", "ACPI_IO", "PM1_CNT", "V_ACPI_IO_PM1_CNT_S5", V_ACPI_IO_PM1_CNT_S5),
  D(75, "R", "ACPI_IO", "PM1_TMR", "R_ACPI_IO_PM1_TMR", Bits(R_ACPI_IO_PM1_TMR)),
  D(76, "V", "ACPI_IO", "PM1_TMR", "V_ACPI_IO_PM1_TMR_FREQUENCY", Bits(V_ACPI_IO_PM1_TMR_FREQUENCY)),
  D(77, "B", "ACPI_IO", "PM1_TMR", "B_ACPI_IO_PM1_TMR_VAL", Bits(B_ACPI_IO_PM1_TMR_VAL)),
  D(78, "V", "ACPI_IO", "PM1_TMR", "V_ACPI_IO_PM1_TMR_MAX_VAL", Bits(V_ACPI_IO_PM1_TMR_MAX_VAL)),
  D(80, "R", "ACPI_IO", "SMI_EN", "R_ACPI_IO_SMI_EN", Bits(R_ACPI_IO_SMI_EN)),
  D(81, "S", "ACPI_IO", "SMI_EN", "S_ACPI_IO_SMI_EN", Bits(S_ACPI_IO_SMI_EN)),
  D(82, "B", "ACPI_IO", "SMI_EN", "B_ACPI_IO_SMI_EN_LEGACY_USB3", B_ACPI_IO_SMI_EN_LEGACY_USB3),
  D(83, "B", "ACPI_IO", "SMI_EN", "B_ACPI_IO_SMI_EN_GPIO_UNLOCK_SMI", B_ACPI_IO_SMI_EN_GPIO_UNLOCK_SMI),
  D(84, "B", "ACPI_IO", "SMI_EN", "B_ACPI_IO_SMI_EN_LEGACY_USB2", B_ACPI_IO_SMI_EN_LEGACY_USB2),
  D(85, "B", "ACPI_IO", "SMI_EN", "B_ACPI_IO_SMI_EN_PERIODIC", B_ACPI_IO_SMI_EN_PERIODIC),
  D(86, "B", "ACPI_IO", "SMI_EN", "B_ACPI_IO_SMI_EN_TCO", B_ACPI_IO_SMI_EN_TCO),
  D(87, "B", "ACPI_IO", "SMI_EN", "B_ACPI_IO_SMI_EN_MCSMI", B_ACPI_IO_SMI_EN_MCSMI),
  D(88, "B", "ACPI_IO", "SMI_EN", "B_ACPI_IO_SMI_EN_BIOS_RLS", B_ACPI_IO_SMI_EN_BIOS_RLS),
  D(89, "B", "ACPI_IO", "SMI_EN", "B_ACPI_IO_SMI_EN_SWSMI_TMR", B_ACPI_IO_SMI_EN_SWSMI_TMR),
  D(90, "B", "ACPI_IO", "SMI_EN", "B_ACPI_IO_SMI_EN_APMC", B_ACPI_IO_SMI_EN_APMC),
  D(91, "B", "ACPI_IO", "SMI_EN", "B_ACPI_IO_SMI_EN_ON_SLP_EN", B_ACPI_IO_SMI_EN_ON_SLP_EN),
  D(92, "B", "ACPI_IO", "SMI_EN", "B_ACPI_IO_SMI_EN_LEGACY_USB", B_ACPI_IO_SMI_EN_LEGACY_USB),
  D(93, "B", "ACPI_IO", "SMI_EN", "B_ACPI_IO_SMI_EN_BIOS", B_ACPI_IO_SMI_EN_BIOS),
  D(94, "B", "ACPI_IO", "SMI_EN", "B_ACPI_IO_SMI_EN_EOS", B_ACPI_IO_SMI_EN_EOS),
  D(95, "B", "ACPI_IO", "SMI_EN", "B_ACPI_IO_SMI_EN_GBL_SMI", B_ACPI_IO_SMI_EN_GBL_SMI),
  D(96, "N", "ACPI_IO", "SMI_EN", "N_ACPI_IO_SMI_EN_LEGACY_USB3", Bits(N_ACPI_IO_SMI_EN_LEGACY_USB3)),
  D(97, "N", "ACPI_IO", "SMI_EN", "N_ACPI_IO_SMI_EN_ESPI", Bits(N_ACPI_IO_SMI_EN_ESPI)),
  D(98, "N", "ACPI_IO", "SMI_EN", "N_ACPI_IO_SMI_EN_GPIO_UNLOCK", Bits(N_ACPI_IO_SMI_EN_GPIO_UNLOCK)),
  D(99, "N", "ACPI_IO", "SMI_EN", "N_ACPI_IO_SMI_EN_INTEL_USB2", Bits(N_ACPI_IO_SMI_EN_INTEL_USB2)),
  D(100, "N", "ACPI_IO", "SMI_EN", "N_ACPI_IO_SMI_EN_LEGACY_USB2", Bits(N_ACPI_IO_SMI_EN_LEGACY_USB2)),
  D(101, "N", "ACPI_IO", "SMI_EN", "N_ACPI_IO_SMI_EN_PERIODIC", Bits(N_ACPI_IO_SMI_EN_PERIODIC)),
  D(102, "N", "ACPI_IO", "SMI_EN", "N_ACPI_IO_SMI_EN_TCO", Bits(N_ACPI_IO_SMI_EN_TCO)),
  D(103, "N", "ACPI_IO", "SMI_EN", "N_ACPI_IO_SMI_EN_MCSMI", Bits(N_ACPI_IO_SMI_EN_MCSMI)),
  D(104, "N", "ACPI_IO", "SMI_EN", "N_ACPI_IO_SMI_EN_BIOS_RLS", Bits(N_ACPI_IO_SMI_EN_BIOS_RLS)),
  D(105, "N", "ACPI_IO", "SMI_EN", "N_ACPI_IO_SMI_EN_SWSMI_TMR", Bits(N_ACPI_IO_SMI_EN_SWSMI_TMR)),
  D(106, "N", "ACPI_IO", "SMI_EN", "N_ACPI_IO_SMI_EN_APMC", Bits(N_ACPI_IO_SMI_EN_APMC)),
  D(107, "N", "ACPI_IO", "SMI_EN", "N_ACPI_IO_SMI_EN_ON_SLP_EN", Bits(N_ACPI_IO_SMI_EN_ON_SLP_EN)),
  D(108, "N", "ACPI_IO", "SMI_EN", "N_ACPI_IO_SMI_EN_LEGACY_USB", Bits(N_ACPI_IO_SMI_EN_LEGACY_USB)),
  D(109, "N", "ACPI_IO", "SMI_EN", "N_ACPI_IO_SMI_EN_BIOS", Bits(N_ACPI_IO_SMI_EN_BIOS)),
  D(110, "N", "ACPI_IO", "SMI_EN", "N_ACPI_IO_SMI_EN_EOS", Bits(N_ACPI_IO_SMI_EN_EOS)),
  D(111, "N", "ACPI_IO", "SMI_EN", "N_ACPI_IO_SMI_EN_GBL_SMI", Bits(N_ACPI_IO_SMI_EN_GBL_SMI)),
  D(113, "R", "ACPI_IO", "SMI_STS", "R_ACPI_IO_SMI_STS", Bits(R_ACPI_IO_SMI_STS)),
  D(114, "B", "ACPI_IO", "SMI_STS", "B_ACPI_IO_SMI_STS_SMBUS", B_ACPI_IO_SMI_STS_SMBUS),
  D(115, "B", "ACPI_IO", "SMI_STS", "B_ACPI_IO_SMI_STS_PERIODIC", B_ACPI_IO_SMI_STS_PERIODIC),
  D(116, "B", "ACPI_IO", "SMI_STS", "B_ACPI_IO_SMI_STS_TCO", B_ACPI_IO_SMI_STS_TCO),
  D(117, "B", "ACPI_IO", "SMI_STS", "B_ACPI_IO_SMI_STS_MCSMI", B_ACPI_IO_SMI_STS_MCSMI),
  D(118, "B", "ACPI_IO", "SMI_STS", "B_ACPI_IO_SMI_STS_SWSMI_TMR", B_ACPI_IO_SMI_STS_SWSMI_TMR),
  D(119, "B", "ACPI_IO", "SMI_STS", "B_ACPI_IO_SMI_STS_APM", B_ACPI_IO_SMI_STS_APM),
  D(120, "B", "ACPI_IO", "SMI_STS", "B_ACPI_IO_SMI_STS_ON_SLP_EN", B_ACPI_IO_SMI_STS_ON_SLP_EN),
  D(121, "B", "ACPI_IO", "SMI_STS", "B_ACPI_IO_SMI_STS_BIOS", B_ACPI_IO_SMI_STS_BIOS),
  D(123, "R", "ACPI_IO", "GPE_CNTL", "R_ACPI_IO_GPE_CNTL", Bits(R_ACPI_IO_GPE_CNTL)),
  D(126, "R", "ACPI_IO", "OC_WDT_CTL", "R_ACPI_IO_OC_WDT_CTL", Bits(R_ACPI_IO_OC_WDT_CTL)),
  D(128, "R", "ACPI_IO", "GPE0_STS_127_96", "R_ACPI_IO_GPE0_STS_127_96", Bits(R_ACPI_IO_GPE0_STS_127_96)),
  D(130, "R", "ACPI_IO", "GPE0_EN_127_96", "R_ACPI_IO_GPE0_EN_127_96", Bits(R_ACPI_IO_GPE0_EN_127_96)),
  D(131, "B", "ACPI_IO", "GPE0_EN_127_96", "B_ACPI_IO_GPE0_EN_127_96_PME_B0", B_ACPI_IO_GPE0_EN_127_96_PME_B0),
  D(132, "B", "ACPI_IO", "GPE0_EN_127_96", "B_ACPI_IO_GPE0_EN_127_96_PME", B_ACPI_IO_GPE0_EN_127_96_PME),
  D(138, "R", "TCO_IO", "TCO1_STS", "R_TCO_IO_TCO1_STS", Bits(R_TCO_IO_TCO1_STS)),
  D(144, "R", "PMC_PWRM", "IPC_CMD", "R_PMC_PWRM_IPC_CMD", Bits(R_PMC_PWRM_IPC_CMD)),
  D(145, "N", "PMC_PWRM", "IPC_CMD", "N_PMC_PWRM_IPC_CMD_CMD_ID", Bits(N_PMC_PWRM_IPC_CMD_CMD_ID)),
  D(146, "N", "PMC_PWRM", "IPC_CMD", "N_PMC_PWRM_IPC_CMD_SIZE", Bits(N_PMC_PWRM_IPC_CMD_SIZE)),
  D(147, "N", "PMC_PWRM", "IPC_CMD", "N_PMC_PWRM_IPC_CMD_COMMAND", Bits(N_PMC_PWRM_IPC_CMD_COMMAND)),
  D(148, "V", "PMC_PWRM", "IPC_CMD", "V_PMC_PWRM_IPC_SRC_CLK_PORT_MAPPING_CMD", Bits(V_PMC_PWRM_IPC_SRC_CLK_PORT_MAPPING_CMD)),
  D(149, "R", "PMC_PWRM", "IPC_STS", "R_PMC_PWRM_IPC_STS", Bits(R_PMC_PWRM_IPC_STS)),
  D(150, "R", "PMC_PWRM", "IPC_WBUF0", "R_PMC_PWRM_IPC_WBUF0", Bits(R_PMC_PWRM_IPC_WBUF0)),
  D(151, "R", "PMC_PWRM", "IPC_WBUF1", "R_PMC_PWRM_IPC_WBUF1", Bits(R_PMC_PWRM_IPC_WBUF1)),
  D(152, "R", "PMC_PWRM", "IPC_WBUF2", "R_PMC_PWRM_IPC_WBUF2", Bits(R_PMC_PWRM_IPC_WBUF2)),
  D(153, "R", "PMC_PWRM", "IPC_WBUF3", "R_PMC_PWRM_IPC_WBUF3", Bits(R_PMC_PWRM_IPC_WBUF3)),
  D(154, "R", "PMC_PWRM", "IPC_RBUF0", "R_PMC_PWRM_IPC_RBUF0", Bits(R_PMC_PWRM_IPC_RBUF0)),
  D(155, "R", "PMC_PWRM", "IPC_RBUF1", "R_PMC_PWRM_IPC_RBUF1", Bits(R_PMC_PWRM_IPC_RBUF1)),
  D(156, "R", "PMC_PWRM", "IPC_RBUF2", "R_PMC_PWRM_IPC_RBUF2", Bits(R_PMC_PWRM_IPC_RBUF2)),
  D(157, "R", "PMC_PWRM", "IPC_RBUF3", "R_PMC_PWRM_IPC_RBUF3", Bits(R_PMC_PWRM_IPC_RBUF3)),
  D(163, "R", "PMC_PWRM", "GEN_PMCON_A", "R_PMC_PWRM_GEN_PMCON_A", Bits(R_PMC_PWRM_GEN_PMCON_A)),
  D(164, "B", "PMC_PWRM", "GEN_PMCON_A", "B_PMC_PWRM_GEN_PMCON_A_GBL_RST_STS", B_PMC_PWRM_GEN_PMCON_A_GBL_RST_STS),
  D(165, "B", "PMC_PWRM", "GEN_PMCON_A", "B_PMC_PWRM_GEN_PMCON_A_PWR_FLR", B_PMC_PWRM_GEN_PMCON_A_PWR_FLR),
  D(166, "B", "PMC_PWRM", "GEN_PMCON_A", "B_PMC_PWRM_GEN_PMCON_A_HOST_RST_STS", B_PMC_PWRM_GEN_PMCON_A_HOST_RST_STS),
  D(168, "R", "PMC_PWRM", "GEN_PMCON_B", "R_PMC_PWRM_GEN_PMCON_B", Bits(R_PMC_PWRM_GEN_PMCON_B)),
  D(169, "B", "PMC_PWRM", "GEN_PMCON_B", "B_PMC_PWRM_GEN_PMCON_B_SMI_LOCK", B_PMC_PWRM_GEN_PMCON_B_SMI_LOCK),
  D(170, "B", "PMC_PWRM", "GEN_PMCON_B", "B_PMC_PWRM_GEN_PMCON_B_RTC_PWR_STS", B_PMC_PWRM_GEN_PMCON_B_RTC_PWR_STS),
  D(173, "B", "PMC_PWRM", "THROT_1", "B_PMC_PWRM_THROT_1_VR_ALERT", B_PMC_PWRM_THROT_1_VR_ALERT),
  D(176, "R", "PMC_PWRM", "MODPHY_PM_CFG5", "R_PMC_PWRM_MODPHY_PM_CFG5", Bits(R_PMC_PWRM_MODPHY_PM_CFG5)),
  D(177, "R", "PMC_PWRM", "MODPHY_PM_CFG6", "R_PMC_PWRM_MODPHY_PM_CFG6", Bits(R_PMC_PWRM_MODPHY_PM_CFG6)),
  D(179, "R", "PMC_PWRM", "THERMAL_TSS0", "R_PMC_PWRM_THERMAL_TSS0", Bits(R_PMC_PWRM_THERMAL_TSS0)),
  D(180, "B", "PMC_PWRM", "THERMAL_TSS0", "B_PMC_PWRM_THERMAL_TSS0_TSR_MASK", Bits(B_PMC_PWRM_THERMAL_TSS0_TSR_MASK)),
  D(182, "R", "PMC_PWRM", "WADT_AC", "R_PMC_PWRM_WADT_AC", Bits(R_PMC_PWRM_WADT_AC)),
  D(184, "R", "PMC_PWRM", "CFG", "R_PMC_PWRM_CFG", Bits(R_PMC_PWRM_CFG)),
  D(187, "R", "PMC_PWRM", "SLP_S0_RESIDENCY_COUNTER", "R_PMC_PWRM_SLP_S0_RESIDENCY_COUNTER", Bits(R_PMC_PWRM_SLP_S0_RESIDENCY_COUNTER)),
  D(190, "R", "PMC_PWRM", "CFG4", "R_PMC_PWRM_CFG4", Bits(R_PMC_PWRM_CFG4)),
  D(193, "R", "PMC_PWRM", "1B1C", "R_PMC_PWRM_1B1C", Bits(R_PMC_PWRM_1B1C)),
  D(196, "R", "PMC_PWRM", "1BD0", "R_PMC_PWRM_1BD0", Bits(R_PMC_PWRM_1BD0)),
  D(199, "B", "PMC_PWRM", "THROT_1", "B_PMC_PWRM_THROT_1_VR_ALERT", B_PMC_PWRM_THROT_1_VR_ALERT),
  D(202, "R", "PMC_PWRM", "ST_PG_FDIS_PMC_1", "R_PMC_PWRM_ST_PG_FDIS_PMC_1", Bits(R_PMC_PWRM_ST_PG_FDIS_PMC_1)),
  D(205, "R", "PMC_PWRM", "NST_PG_FDIS_1", "R_PMC_PWRM_NST_PG_FDIS_1", Bits(R_PMC_PWRM_NST_PG_FDIS_1)),
  D(211, "", "", "", "PMC_LPM_REQ_DATA_LEN", Bits(PMC_LPM_REQ_DATA_LEN)),
  D(215, "", "", "", "PMC_LPM_REQ_BITS_DATA_LEN", Bits(PMC_LPM_REQ_BITS_DATA_LEN))
>>

\* The entries of one kind ("R", "B", "V", "S", "N") and of one register.
EntriesOf(kind) == {Header[i] : i \in {j \in 1..Len(Header) : Header[j].kind = kind}}
FieldsOf(kind, space, reg) ==
  {e.name : e \in {x \in EntriesOf(kind) : x.space = space /\ x.reg = reg}}
OffsetsOf(space) == {e.name : e \in {x \in EntriesOf("R") : x.space = space}}

(***************************************************************************)
(* State                                                                   *)
(***************************************************************************)
VARIABLES
  pc,      \* "cpp": reading the header; "run": the consumer runs; "error"
  pos,     \* index in Header of the next #define to process
  macros,  \* the macro table: name -> UINT32 replacement value
  ndef,    \* name -> number of #define directives seen for it
  op,      \* the consumer's last register operation
  arg,     \* its inputs
  res      \* its results

vars == <<pc, pos, macros, ndef, op, arg, res>>

Init ==
  /\ pc = "cpp"
  /\ pos = 1
  /\ macros = <<>>
  /\ ndef = <<>>
  /\ op = "none"
  /\ arg = <<>>
  /\ res = <<>>

Defined(name) == name \in DOMAIN macros
M(name) == macros[name]

\* #define name value.  A redefinition with the same replacement list is
\* accepted; one with a different replacement list stops the translation.
Define ==
  /\ pc = "cpp"
  /\ pos <= Len(Header)
  /\ LET d == Header[pos] IN
       IF Defined(d.name) /\ M(d.name) # d.value
       THEN /\ pc' = "error"
            /\ UNCHANGED <<pos, macros, ndef>>
       ELSE /\ macros' = (d.name :> d.value) @@ macros
            /\ ndef' = (d.name :> (IF d.name \in DOMAIN ndef THEN ndef[d.name] + 1 ELSE 1)) @@ ndef
            /\ pos' = pos + 1
            /\ pc' = pc
  /\ UNCHANGED <<op, arg, res>>

\* End of the header: the translation unit's code sees the finished table.
EndOfHeader ==
  /\ pc = "cpp"
  /\ pos = Len(Header) + 1
  /\ pc' = "run"
  /\ UNCHANGED <<pos, macros, ndef, op, arg, res>>

(***************************************************************************)
(* The consumer: register accesses written with the resolved names         *)
(***************************************************************************)
\* The bit positions within Margin of one of the given positions.
Around(bits) ==
  {i \in AllBits : \E b \in bits : i - b <= Margin /\ b - i <= Margin}

\* Register contents that take every combination on the positions vb, the
\* remaining positions being all 0 or all 1.
Contents(vb) ==
  {s \cup bg : s \in SUBSET (vb \cap AllBits), bg \in {{}, AllBits \ vb}}

SleepStates == {"S0", "S3", "S4", "S5"}
SlpTypOf(s) == M("V_ACPI_IO_PM1_CNT_" \o s)
\* The sleep states whose encoding a SLP_TYP field content matches.
SleepStatesOf(field) == {s \in SleepStates : SlpTypOf(s) = field}

\* Read-modify-write of PM1_CNT.SLP_TYP, then read-back of the field:
\*   Data = (Data & ~B_ACPI_IO_PM1_CNT_SLP_TYP) | V_ACPI_IO_PM1_CNT_Sx
\*   Data & B_ACPI_IO_PM1_CNT_SLP_TYP
WriteSlpTyp ==
  /\ pc = "run"
  /\ op = "none"
  /\ \E r \in Contents(Around(M("B_ACPI_IO_PM1_CNT_SLP_TYP")) \cup {0, 31}),
        s \in SleepStates :
       LET mask == M("B_ACPI_IO_PM1_CNT_SLP_TYP")
           data == BitOr(BitAnd(r, BitNot(mask)), SlpTypOf(s))
           field == BitAnd(data, mask)
       IN /\ op' = "WriteSlpTyp"
          /\ arg' = [r |-> r, state |-> s, v |-> SlpTypOf(s)]
          /\ res' = [data |-> data, field |-> field,
                     states |-> SleepStatesOf(field)]
  /\ UNCHANGED <<pc, pos, macros, ndef>>

\* Read of the ACPI PM1 timer: the raw register masked with
\* B_ACPI_IO_PM1_TMR_VAL, and the count one tick later, modulo
\* V_ACPI_IO_PM1_TMR_MAX_VAL.
ReadPm1Tmr ==
  /\ pc = "run"
  /\ op = "none"
  /\ \E raw \in Contents(Around({0, 23, 24})) :
       LET count == Val(BitAnd(raw, M("B_ACPI_IO_PM1_TMR_VAL")))
       IN /\ op' = "ReadPm1Tmr"
          /\ arg' = [raw |-> raw]
          /\ res' = [count |-> count,
                     next |-> (count + 1) % Val(M("V_ACPI_IO_PM1_TMR_MAX_VAL"))]
  /\ UNCHANGED <<pc, pos, macros, ndef>>

\* Command IDs and sizes of an IPC command word.
IpcIds == {Val(s) : s \in SUBSET LowMask(4)}
IpcSizes == {Val(s) : s \in {c \cap LowMask(16) : c \in Contents(Around({0, 15}) \cap LowMask(16))}}

\* The IPC command word
\*   (Command << N_..._COMMAND) | (CmdId << N_..._CMD_ID) | (Size << N_..._SIZE)
\* built without truncation, and the three fields read back from it by
\* shifting and masking with the width up to the next field.
IpcPack ==
  /\ pc = "run"
  /\ op = "none"
  /\ \E id \in IpcIds, size \in IpcSizes :
       LET nCmd == Val(M("N_PMC_PWRM_IPC_CMD_COMMAND"))
           nId == Val(M("N_PMC_PWRM_IPC_CMD_CMD_ID"))
           nSize == Val(M("N_PMC_PWRM_IPC_CMD_SIZE"))
           cmd == M("V_PMC_PWRM_IPC_SRC_CLK_PORT_MAPPING_CMD")
           word == BitOr(BitOr(ShlWide(cmd, nCmd), ShlWide(Bits(id), nId)),
                         ShlWide(Bits(size), nSize))
       IN /\ op' = "IpcPack"
          /\ arg' = [cmd |-> cmd, id |-> id, size |-> size]
          /\ res' = [word |-> word,
                     cmd |-> BitAnd(Shr(word, nCmd), LowMask(nId - nCmd)),
                     id |-> Val(BitAnd(Shr(word, nId), LowMask(nSize - nId))),
                     size |-> Val(BitAnd(Shr(word, nSize), LowMask(32 - nSize)))]
  /\ UNCHANGED <<pc, pos, macros, ndef>>

\* The events that have a bit in an enable register and in the matching
\* status register: [grp, ev, en, sts], en and sts naming the two masks.
EventPair(grp, ev, en, sts) == [grp |-> grp, ev |-> ev, en |-> en, sts |-> sts]
EventPairs == {
  EventPair("SMI", "PERIODIC", "B_ACPI_IO_SMI_EN_PERIODIC", "B_ACPI_IO_SMI_STS_PERIODIC"),
  EventPair("SMI", "TCO", "B_ACPI_IO_SMI_EN_TCO", "B_ACPI_IO_SMI_STS_TCO"),
  EventPair("SMI", "MCSMI", "B_ACPI_IO_SMI_EN_MCSMI", "B_ACPI_IO_SMI_STS_MCSMI"),
  EventPair("SMI", "SWSMI_TMR", "B_ACPI_IO_SMI_EN_SWSMI_TMR", "B_ACPI_IO_SMI_STS_SWSMI_TMR"),
  EventPair("SMI", "APMC", "B_ACPI_IO_SMI_EN_APMC", "B_ACPI_IO_SMI_STS_APM"),
  EventPair("SMI", "ON_SLP_EN", "B_ACPI_IO_SMI_EN_ON_SLP_EN", "B_ACPI_IO_SMI_STS_ON_SLP_EN"),
  EventPair("SMI", "BIOS", "B_ACPI_IO_SMI_EN_BIOS", "B_ACPI_IO_SMI_STS_BIOS"),
  EventPair("PM1", "PWRBTN", "B_ACPI_IO_PM1_EN_PWRBTN", "B_ACPI_IO_PM1_STS_PWRBTN") }
EventGroups == {p.grp : p \in EventPairs}
PairsOf(grp) == {p \in EventPairs : p.grp = grp}

RECURSIVE BitOrAll(_)
BitOrAll(S) ==
  IF S = {} THEN {}
  ELSE LET x == CHOOSE y \in S : TRUE IN BitOr(x, BitOrAll(S \ {x}))

\* Event dispatch: Pending = Status & Enable, then each event is tested
\* once with its enable-register mask and once with its status-register
\* mask.
EventDispatch ==
  /\ pc = "run"
  /\ op = "none"
  /\ \E grp \in EventGroups :
       LET enMasks == {M(p.en) : p \in PairsOf(grp)}
           stsMasks == {M(p.sts) : p \in PairsOf(grp)}
       IN \E sts \in Contents(BitOrAll(stsMasks \cup enMasks)),
             en \in enMasks \cup {BitOrAll(enMasks)} :
            LET pending == BitAnd(sts, en)
            IN /\ op' = "EventDispatch"
               /\ arg' = [grp |-> grp, sts |-> sts, en |-> en]
               /\ res' = [pending |-> pending,
                          byEn |-> {p.ev : p \in {q \in PairsOf(grp) : BitAnd(pending, M(q.en)) # {}}},
                          bySts |-> {p.ev : p \in {q \in PairsOf(grp) : BitAnd(pending, M(q.sts)) # {}}}]
  /\ UNCHANGED <<pc, pos, macros, ndef>>

\* The access returns; the consumer is idle until its next one.
Return ==
  /\ pc = "run"
  /\ op # "none"
  /\ op' = "none"
  /\ arg' = <<>>
  /\ res' = <<>>
  /\ UNCHANGED <<pc, pos, macros, ndef>>

Next ==
  \/ Define
  \/ EndOfHeader
  \/ WriteSlpTyp
  \/ ReadPm1Tmr
  \/ IpcPack
  \/ EventDispatch
  \/ Return

Spec == Init /\ [][Next]_vars

(***************************************************************************)
(* Properties                                                              *)
(***************************************************************************)
HeaderDone == pc = "run"

SmiEnBitPairs == {
  <<"B_ACPI_IO_SMI_EN_LEGACY_USB3", "N_ACPI_IO_SMI_EN_LEGACY_USB3">>,
  <<"B_ACPI_IO_SMI_EN_GPIO_UNLOCK_SMI", "N_ACPI_IO_SMI_EN_GPIO_UNLOCK">>,
  <<"B_ACPI_IO_SMI_EN_LEGACY_USB2", "N_ACPI_IO_SMI_EN_LEGACY_USB2">>,
  <<"B_ACPI_IO_SMI_EN_PERIODIC", "N_ACPI_IO_SMI_EN_PERIODIC">>,
  <<"B_ACPI_IO_SMI_EN_TCO", "N_ACPI_IO_SMI_EN_TCO">>,
  <<"B_ACPI_IO_SMI_EN_MCSMI", "N_ACPI_IO_SMI_EN_MCSMI">>,
  <<"B_ACPI_IO_SMI_EN_BIOS_RLS", "N_ACPI_IO_SMI_EN_BIOS_RLS">>,
  <<"B_ACPI_IO_SMI_EN_SWSMI_TMR", "N_ACPI_IO_SMI_EN_SWSMI_TMR">>,
  <<"B_ACPI_IO_SMI_EN_APMC", "N_ACPI_IO_SMI_EN_APMC">>,
  <<"B_ACPI_IO_SMI_EN_ON_SLP_EN", "N_ACPI_IO_SMI_EN_ON_SLP_EN">>,
  <<"B_ACPI_IO_SMI_EN_LEGACY_USB", "N_ACPI_IO_SMI_EN_LEGACY_USB">>,
  <<"B_ACPI_IO_SMI_EN_BIOS", "N_ACPI_IO_SMI_EN_BIOS">>,
  <<"B_ACPI_IO_SMI_EN_EOS", "N_ACPI_IO_SMI_EN_EOS">>,
  <<"B_ACPI_IO_SMI_EN_GBL_SMI", "N_ACPI_IO_SMI_EN_GBL_SMI">> }

\* The position of the highest 1 bit of a non-zero value.
Log2(s) == CHOOSE i \in s : \A k \in s : k <= i

\* C1: at every point of the translation unit, each SMI_EN field whose mask
\* B_ACPI_IO_SMI_EN_<F> and position N_ACPI_IO_SMI_EN_<F> are both defined
\* has mask = 1 << position: the mask is the single bit at that position, so
\* the position is log2 of the mask.
C1_MaskIsOneShiftedByPosition ==
  \A p \in SmiEnBitPairs :
    (Defined(p[1]) /\ Defined(p[2])) =>
      /\ M(p[1]) = Shl(Bits(1), Val(M(p[2])))
      /\ Cardinality(M(p[1])) = 1
      /\ Log2(M(p[1])) = Val(M(p[2]))

\* Every SMI_EN mask/position pair is defined, the one with mismatched
\* field names and the top bit included.
C1_Witness ==
  /\ HeaderDone
  /\ \A p \in SmiEnBitPairs : Defined(p[1]) /\ Defined(p[2])
  /\ M("B_ACPI_IO_SMI_EN_GPIO_UNLOCK_SMI") = BIT(27)
  /\ M("B_ACPI_IO_SMI_EN_LEGACY_USB3") = BIT(31)

\* C2: after SLP_TYP of PM1_CNT is written with the encoding of a sleep
\* state over any prior register content, the field read back through
\* B_ACPI_IO_PM1_CNT_SLP_TYP is exactly the encoding written, it matches the
\* encoding of that sleep state and of no other, and for S5 it is 0x1C00.
C2_SlpTypRoundTrip ==
  op = "WriteSlpTyp" =>
    /\ res.field = arg.v
    /\ res.states = {arg.state}
    /\ arg.state = "S5" => res.field = Bits(7168)

\* S3 written over a content whose SLP_TYP bits, neighbours and bit 31 were
\* all set: the write has to clear bit 11 and keep the rest.
C2_Witness ==
  /\ op = "WriteSlpTyp"
  /\ arg.state = "S3"
  /\ arg.r = AllBits
  /\ res.data = AllBits \ {11}
  /\ res.field = {10, 12}

\* C3: the PM1 timer constants describe a 24-bit counter: MAX_VAL is
\* TMR_VAL + 1 and is 2^24, a raw reading masked with B_ACPI_IO_PM1_TMR_VAL
\* is below MAX_VAL, and the largest masked reading plus one is 0 modulo
\* MAX_VAL.
C3_TimerIs24Bit ==
  /\ (Defined("B_ACPI_IO_PM1_TMR_VAL") /\ Defined("V_ACPI_IO_PM1_TMR_MAX_VAL")) =>
       /\ Val(M("V_ACPI_IO_PM1_TMR_MAX_VAL")) = Val(M("B_ACPI_IO_PM1_TMR_VAL")) + 1
       /\ Val(M("V_ACPI_IO_PM1_TMR_MAX_VAL")) = 2^24
  /\ op = "ReadPm1Tmr" =>
       /\ res.count < Val(M("V_ACPI_IO_PM1_TMR_MAX_VAL"))
       /\ res.count = Val(M("B_ACPI_IO_PM1_TMR_VAL")) => res.next = 0
       /\ res.count < Val(M("B_ACPI_IO_PM1_TMR_VAL")) => res.next = res.count + 1

\* A raw reading with all 32 bits set: the masked count is the maximum and
\* the next tick wraps.
C3_Witness ==
  /\ op = "ReadPm1Tmr"
  /\ arg.raw = AllBits
  /\ res.count = 16777215
  /\ res.next = 0

C4Registers == {
  <<"ACPI_IO", "PM1_STS">>, <<"ACPI_IO", "PM1_CNT">>, <<"ACPI_IO", "SMI_EN">>,
  <<"ACPI_IO", "SMI_STS">>, <<"ACPI_IO", "GPE0_EN_127_96">>,
  <<"PMC_PWRM", "GEN_PMCON_A">>, <<"PMC_PWRM", "GEN_PMCON_B">> }

\* C4: within each register that has named bit fields, the masks of any two
\* distinct field names that are defined have no bit in common.
C4_FieldMasksDisjoint ==
  \A rg \in C4Registers :
    \A a, b \in FieldsOf("B", rg[1], rg[2]) :
      (a # b /\ Defined(a) /\ Defined(b)) => BitAnd(M(a), M(b)) = {}

\* The whole header is read: every listed register has at least two field
\* masks defined, SMI_EN all fourteen.
C4_Witness ==
  /\ HeaderDone
  /\ \A rg \in C4Registers :
       /\ Cardinality(FieldsOf("B", rg[1], rg[2])) >= 2
       /\ \A a \in FieldsOf("B", rg[1], rg[2]) : Defined(a)
  /\ Cardinality(FieldsOf("B", "ACPI_IO", "SMI_EN")) = 14
  /\ Cardinality(M("B_ACPI_IO_PM1_CNT_SLP_TYP")) = 3

\* The width in bits of a register: 8 * S_ACPI_IO_SMI_EN for SMI_EN, the
\* only register with a declared size; w16 for the registers in Narrow;
\* 32 bits for the rest.
WidthOf(space, reg, Narrow) ==
  IF reg = "SMI_EN" /\ Defined("S_ACPI_IO_SMI_EN")
  THEN 8 * Val(M("S_ACPI_IO_SMI_EN"))
  ELSE IF space = "ACPI_IO" /\ reg \in Narrow THEN 16 ELSE 32

\* Every defined mask and position of a register lies within its width.
WithinWidth(Narrow) ==
  /\ \A e \in EntriesOf("B") :
       Defined(e.name) => M(e.name) \subseteq LowMask(WidthOf(e.space, e.reg, Narrow))
  /\ \A e \in EntriesOf("N") :
       Defined(e.name) => Val(M(e.name)) < WidthOf(e.space, e.reg, Narrow)

\* C5 as stated: every mask and position lies within its register's width,
\* the width being 16 bits for PM1_STS and PM1_CNT, 8 * S_ACPI_IO_SMI_EN for
\* SMI_EN and 32 bits for the PWRM registers and the IPC command word.
C5_WithinWidth_PM1_STS16 == WithinWidth({"PM1_STS", "PM1_EN", "PM1_CNT"})

\* C5, amended: every mask and position lies within its register's width,
\* where PM1_STS is 32 bits wide (its masks are those of the 32-bit access at
\* offset 0x00, B_ACPI_IO_PM1_STS_RTC_EN being BIT26), PM1_CNT is 16 bits
\* wide, SMI_EN is 8 * S_ACPI_IO_SMI_EN = 32 bits wide, and the PWRM
\* registers and the IPC command word are 32 bits wide; RTC_EN is the only
\* PM1_STS mask above bit 15.
C5_WithinWidth ==
  /\ WithinWidth({"PM1_EN", "PM1_CNT"})
  /\ Defined("S_ACPI_IO_SMI_EN") => 8 * Val(M("S_ACPI_IO_SMI_EN")) = 32
  /\ \A a \in FieldsOf("B", "ACPI_IO", "PM1_STS") \ {"B_ACPI_IO_PM1_STS_RTC_EN"} :
       Defined(a) => M(a) \subseteq LowMask(16)

\* The header is read: the PM1_STS mask above bit 15, the top SMI_EN bit and
\* position, and the highest IPC command position are all defined.
C5_Witness ==
  /\ HeaderDone
  /\ M("B_ACPI_IO_PM1_STS_RTC_EN") = BIT(26)
  /\ M("B_ACPI_IO_SMI_EN_LEGACY_USB3") = BIT(31)
  /\ Val(M("N_ACPI_IO_SMI_EN_LEGACY_USB3")) = 31
  /\ Val(M("N_PMC_PWRM_IPC_CMD_SIZE")) = 16
  /\ \A e \in EntriesOf("B") \cup EntriesOf("N") : Defined(e.name)

\* C6: two distinct register names of the same register space never have
\* the same offset; an offset is shared only across spaces, as 0x04 is by
\* R_TCO_IO_TCO1_STS, R_PMC_PWRM_IPC_STS and R_ACPI_IO_PM1_CNT.
C6_OffsetsCollisionFree ==
  /\ \A a, b \in EntriesOf("R") :
       (a.name # b.name /\ Defined(a.name) /\ Defined(b.name) /\ M(a.name) = M(b.name))
         => a.space # b.space
  /\ \A n \in {"R_TCO_IO_TCO1_STS", "R_PMC_PWRM_IPC_STS", "R_ACPI_IO_PM1_CNT"} :
       Defined(n) => M(n) = Bits(4)

\* The header is read: all three register spaces are populated and the
\* shared offset 0x04 is present in each.
C6_Witness ==
  /\ HeaderDone
  /\ Cardinality(OffsetsOf("ACPI_IO")) = 9
  /\ Cardinality(OffsetsOf("PMC_PWRM")) = 25
  /\ \A n \in OffsetsOf("ACPI_IO") \cup OffsetsOf("PMC_PWRM") \cup OffsetsOf("TCO_IO") : Defined(n)
  /\ M("R_TCO_IO_TCO1_STS") = M("R_ACPI_IO_PM1_CNT")
  /\ M("R_PMC_PWRM_IPC_STS") = M("R_ACPI_IO_PM1_CNT")

\* C7: once B_PMC_PWRM_THROT_1_VR_ALERT is defined, the header has defined
\* it exactly once, with value BIT0.
C7_ThrotVrAlertDefinedOnce ==
  Defined("B_PMC_PWRM_THROT_1_VR_ALERT") =>
    /\ ndef["B_PMC_PWRM_THROT_1_VR_ALERT"] = 1
    /\ M("B_PMC_PWRM_THROT_1_VR_ALERT") = BIT(0)

\* C8: the bit length of the Low Power Mode requirement data is eight times
\* its byte length.
C8_LpmReqLengthsAgree ==
  (Defined("PMC_LPM_REQ_DATA_LEN") /\ Defined("PMC_LPM_REQ_BITS_DATA_LEN")) =>
    Val(M("PMC_LPM_REQ_BITS_DATA_LEN")) = 8 * Val(M("PMC_LPM_REQ_DATA_LEN"))

\* Both lengths are defined, with the values of the header.
C8_Witness ==
  /\ Defined("PMC_LPM_REQ_BITS_DATA_LEN")
  /\ Val(M("PMC_LPM_REQ_DATA_LEN")) = 192
  /\ Val(M("PMC_LPM_REQ_BITS_DATA_LEN")) = 1536

IpcNames == {"N_PMC_PWRM_IPC_CMD_COMMAND", "N_PMC_PWRM_IPC_CMD_CMD_ID",
             "N_PMC_PWRM_IPC_CMD_SIZE", "V_PMC_PWRM_IPC_SRC_CLK_PORT_MAPPING_CMD"}

\* C9: the IPC command word packs unambiguously: COMMAND < CMD_ID < SIZE < 32,
\* the SRCCLK port mapping command shifted to its place stays below the
\* CMD_ID field, and a word packed from it, a command ID below 2^4 and a size
\* below 2^16 fits in 32 bits and gives back all three fields by shifting and
\* masking.
C9_IpcCmdPacking ==
  /\ (\A n \in IpcNames : Defined(n)) =>
       /\ Val(M("N_PMC_PWRM_IPC_CMD_COMMAND")) < Val(M("N_PMC_PWRM_IPC_CMD_CMD_ID"))
       /\ Val(M("N_PMC_PWRM_IPC_CMD_CMD_ID")) < Val(M("N_PMC_PWRM_IPC_CMD_SIZE"))
       /\ Val(M("N_PMC_PWRM_IPC_CMD_SIZE")) < 32
       /\ Val(ShlWide(M("V_PMC_PWRM_IPC_SRC_CLK_PORT_MAPPING_CMD"),
                      Val(M("N_PMC_PWRM_IPC_CMD_COMMAND"))))
            < 2^Val(M("N_PMC_PWRM_IPC_CMD_CMD_ID"))
  /\ op = "IpcPack" =>
       /\ res.word \subseteq AllBits
       /\ res.cmd = arg.cmd
       /\ res.id = arg.id
       /\ res.size = arg.size

\* The largest command ID and size are packed: every bit of both fields,
\* bit 31 included, is set beside the command code.
C9_Witness ==
  /\ op = "IpcPack"
  /\ arg.id = 15
  /\ arg.size = 65535
  /\ res.word = (12..31) \cup Bits(172)

\* C10: every event with a bit in an enable register and in the matching
\* status register has the same mask in both, so the events found pending in
\* Status & Enable are the same whichever register's masks test them.
C10_EnableStatusSameBit ==
  /\ \A p \in EventPairs : (Defined(p.en) /\ Defined(p.sts)) => M(p.sts) = M(p.en)
  /\ op = "EventDispatch" => res.byEn = res.bySts

\* All seven SMI events are raised and enabled at once and all are found.
C10_Witness ==
  /\ op = "EventDispatch"
  /\ arg.grp = "SMI"
  /\ Cardinality(res.byEn) = 7
  /\ res.pending = arg.en

=============================================================================
